---------------------------- MODULE Spec2Model ----------------------------
(***************************************************************************)
(* A model of Ember.FormController (src/form-controller.js): the formatter *)
(* and validator registries, the schema flattener and the validateFields / *)
(* formatFields passes.                                                    *)
(*                                                                         *)
(* JavaScript values are records [t, s, n, m]: t is the run-time type, s   *)
(* the characters of a string, n the number (or 0/1 of a boolean), m the   *)
(* own enumerable properties of a plain object.  Strings, property names   *)
(* and dotted paths are sequences of one-character strings, so that case   *)
(* folding, concatenation and the regular expressions are computed         *)
(* character by character.                                                 *)
(***************************************************************************)
EXTENDS Integers, Sequences, FiniteSets, TLC

VARIABLES
    fields,            \* this.fields: the schema, a plain object
    defaults,          \* this.defaults
    _fields,           \* this._fields: the flat field table
    source,            \* the data source, by dotted path
    errors,            \* this.errors
    validators,        \* Ember.Validators, by canonical name
    formatters,        \* Ember.Formatters, by canonical name
    pickSpreads,       \* whether the _.pick of the build spreads an arguments object
    notified,          \* history: this.defaults as read by the last _formatFields
    lastOp,            \* history: the last validateFields / formatFields call
    regOp,             \* history: the last registry call
    flatIn,            \* the flattener taken alone: its input,
    flatOut,           \* its result,
    flatPrev,          \* the result before the last pass,
    flatPc             \* and the number of passes made

vars == <<fields, defaults, _fields, source, errors, validators, formatters,
          pickSpreads, notified, lastOp, regOp, flatIn, flatOut, flatPrev, flatPc>>

engineVars == <<fields, defaults, _fields, source, errors, pickSpreads, notified, lastOp>>
registryVars == <<validators, formatters, regOp>>
flatVars == <<flatIn, flatOut, flatPrev, flatPc>>

---------------------------------------------------------------------------
(* JavaScript values *)

NoProps == <<>>

Undef == [t |-> "undefined", s |-> <<>>, n |-> 0, m |-> NoProps]
Null == [t |-> "null", s |-> <<>>, n |-> 0, m |-> NoProps]
True == [t |-> "boolean", s |-> <<>>, n |-> 1, m |-> NoProps]
False == [t |-> "boolean", s |-> <<>>, n |-> 0, m |-> NoProps]
Num(i) == [t |-> "number", s |-> <<>>, n |-> i, m |-> NoProps]
Str(cs) == [t |-> "string", s |-> cs, n |-> 0, m |-> NoProps]
Obj(props) == [t |-> "object", s |-> <<>>, n |-> 0, m |-> props]

\* ToBoolean: what `if(v)` and `!v` test.
Truthy(v) ==
    CASE v.t = "undefined" -> FALSE
      [] v.t = "null" -> FALSE
      [] v.t = "boolean" -> v.n = 1
      [] v.t = "number" -> v.n # 0
      [] v.t = "string" -> v.s # <<>>
      [] OTHER -> TRUE

\* obj[name]: undefined when the property is absent.
Prop(props, name) == IF name \in DOMAIN props THEN props[name] ELSE Undef

DigitChars == <<"0", "1", "2", "3", "4", "5", "6", "7", "8", "9">>
LowerChars == <<"a", "b", "c", "d", "e", "f", "g", "h", "i", "j", "k", "l", "m",
                "n", "o", "p", "q", "r", "s", "t", "u", "v", "w", "x", "y", "z">>
UpperChars == <<"A", "B", "C", "D", "E", "F", "G", "H", "I", "J", "K", "L", "M",
                "N", "O", "P", "Q", "R", "S", "T", "U", "V", "W", "X", "Y", "Z">>

Range(q) == {q[i] : i \in DOMAIN q}
DigitSet == Range(DigitChars)
LowerSet == Range(LowerChars)
UpperSet == Range(UpperChars)
IndexOf(q, c) == CHOOSE i \in DOMAIN q : q[i] = c
IsDigit(c) == c \in DigitSet
DigitValue(c) == IndexOf(DigitChars, c) - 1

UpperChar(c) == IF c \in LowerSet THEN UpperChars[IndexOf(LowerChars, c)] ELSE c
LowerChar(c) == IF c \in UpperSet THEN LowerChars[IndexOf(UpperChars, c)] ELSE c
toUpperCase(cs) == [i \in DOMAIN cs |-> UpperChar(cs[i])]
toLowerCase(cs) == [i \in DOMAIN cs |-> LowerChar(cs[i])]

RECURSIVE NatToStr(_)
NatToStr(i) ==
    IF i < 10 THEN <<DigitChars[i + 1]>>
    ELSE NatToStr(i \div 10) \o <<DigitChars[(i % 10) + 1]>>

\* JsToString, as `value + ''` and the string built-ins apply it to a primitive.
\* (No object is ever held by the data source of the model.)
JsToString(v) ==
    CASE v.t = "undefined" -> <<"u", "n", "d", "e", "f", "i", "n", "e", "d">>
      [] v.t = "null" -> <<"n", "u", "l", "l">>
      [] v.t = "boolean" -> IF v.n = 1 THEN <<"t", "r", "u", "e">>
                            ELSE <<"f", "a", "l", "s", "e">>
      [] v.t = "number" -> IF v.n < 0 THEN <<"-">> \o NatToStr(0 - v.n) ELSE NatToStr(v.n)
      [] OTHER -> v.s

\* The longest prefix of cs, from position i on, made of digits.
RECURSIVE DigitRun(_, _)
DigitRun(cs, i) ==
    IF i <= Len(cs) /\ IsDigit(cs[i]) THEN <<cs[i]>> \o DigitRun(cs, i + 1) ELSE <<>>

RECURSIVE DigitsToNat(_)
DigitsToNat(ds) ==
    IF ds = <<>> THEN 0
    ELSE 10 * DigitsToNat(SubSeq(ds, 1, Len(ds) - 1)) + DigitValue(ds[Len(ds)])

RECURSIVE SkipSpaces(_, _)
SkipSpaces(cs, i) == IF i <= Len(cs) /\ cs[i] = " " THEN SkipSpaces(cs, i + 1) ELSE i

\* parseInt(cs, 10): [nan, n].
ParseInt(cs) ==
    LET i0 == SkipSpaces(cs, 1)
        signed == i0 <= Len(cs) /\ cs[i0] \in {"+", "-"}
        i1 == IF signed THEN i0 + 1 ELSE i0
        ds == DigitRun(cs, i1)
        mag == DigitsToNat(ds)
    IN  IF ds = <<>> THEN [nan |-> TRUE, n |-> 0]
        ELSE [nan |-> FALSE, n |-> IF signed /\ cs[i0] = "-" THEN 0 - mag ELSE mag]

\* parseFloat(cs), as far as the validators look at it: [nan, whole], whole
\* telling that the parsed number has no fractional part.  The mantissa is
\* digits, an optional point and digits; an exponent part (a digit or point
\* followed by e/E and a digit) is not parsed here, and no string the
\* validators Integer and Float are applied to in this model has one.
ParseFloat(cs) ==
    LET i0 == SkipSpaces(cs, 1)
        signed == i0 <= Len(cs) /\ cs[i0] \in {"+", "-"}
        i1 == IF signed THEN i0 + 1 ELSE i0
        d1 == DigitRun(cs, i1)
        i2 == i1 + Len(d1)
        point == i2 <= Len(cs) /\ cs[i2] = "."
        d2 == IF point THEN DigitRun(cs, i2 + 1) ELSE <<>>
    IN  IF d1 = <<>> /\ d2 = <<>> THEN [nan |-> TRUE, whole |-> FALSE]
        ELSE [nan |-> FALSE, whole |-> \A j \in DOMAIN d2 : d2[j] = "0"]

\* Ember's String.prototype.classify: each "."-separated part is camelized
\* (a run of "-", "_" or spaces is dropped and the character after it
\* upper-cased) and its first character upper-cased.
RECURSIVE ClassifyFrom(_, _, _)
ClassifyFrom(cs, i, up) ==
    IF i > Len(cs) THEN <<>>
    ELSE IF cs[i] \in {"-", "_", " "} THEN ClassifyFrom(cs, i + 1, TRUE)
    ELSE IF cs[i] = "." THEN <<".">> \o ClassifyFrom(cs, i + 1, TRUE)
    ELSE <<IF up THEN UpperChar(cs[i]) ELSE cs[i]>> \o ClassifyFrom(cs, i + 1, FALSE)

classify(cs) == ClassifyFrom(cs, 1, TRUE)

---------------------------------------------------------------------------
(* Validators *)

AllIn(cs, class) == \A i \in DOMAIN cs : cs[i] \in class

LowerAlnum == LowerSet \cup DigitSet

\* /^[0-9A-F]+$/
HexadecimalRegex(cs) ==
    Len(cs) >= 1 /\ AllIn(cs, DigitSet \cup {"A", "B", "C", "D", "E", "F"})

\* /^#([a-f0-9]{6}|[a-f0-9]{3})$/
HexColorRegex(cs) ==
    /\ Len(cs) \in {4, 7}
    /\ cs[1] = "#"
    /\ AllIn(Tail(cs), DigitSet \cup {"a", "b", "c", "d", "e", "f"})

\* /^([a-z0-9_\.-]+)@([\da-z\.-]+)\.([a-z\.]{2,6})$/
EmailRegex(cs) ==
    \E at \in DOMAIN cs : \E dot \in DOMAIN cs :
        /\ cs[at] = "@"
        /\ dot > at + 1
        /\ cs[dot] = "."
        /\ at > 1
        /\ AllIn(SubSeq(cs, 1, at - 1), LowerAlnum \cup {"_", ".", "-"})
        /\ AllIn(SubSeq(cs, at + 1, dot - 1), LowerAlnum \cup {".", "-"})
        /\ Len(cs) - dot \in 2..6
        /\ AllIn(SubSeq(cs, dot + 1, Len(cs)), LowerSet \cup {"."})

\* StringValidator.validate
StringValidate(v) == v.t = "string"

\* this.regex.test(value), the regex named as its entry is in the namespace.
RegexTest(regex, cs) ==
    CASE regex = "Hexadecimal" -> HexadecimalRegex(cs)
      [] regex = "Email" -> EmailRegex(cs)
      [] OTHER -> HexColorRegex(cs)

\* RegExpValidator.validate, for an entry created with a regex.
RegExpValidate(v, regex) == IF ~StringValidate(v) THEN FALSE ELSE RegexTest(regex, v.s)

\* IntegerValidator.validate: parseFloat(value) % 1 === 0
IntegerValidate(v) == LET p == ParseFloat(JsToString(v)) IN ~p.nan /\ p.whole

\* FloatValidator.validate: !isNaN(parseFloat(value))
FloatValidate(v) == ~ParseFloat(JsToString(v)).nan

\* Property names of the two namespaces, and the other names the model uses.
kBlank == <<"B", "l", "a", "n", "k">>
kInteger == <<"I", "n", "t", "e", "g", "e", "r">>
kFloat == <<"F", "l", "o", "a", "t">>
kString == <<"S", "t", "r", "i", "n", "g">>
kHexadecimal == <<"H", "e", "x", "a", "d", "e", "c", "i", "m", "a", "l">>
kEmail == <<"E", "m", "a", "i", "l">>
kHexColor == <<"H", "e", "x", "C", "o", "l", "o", "r">>
kUpperCase == <<"U", "p", "p", "e", "r", "C", "a", "s", "e">>
kLowerCase == <<"L", "o", "w", "e", "r", "C", "a", "s", "e">>

\* A registry maps a property name to the behaviour of the object stored
\* under it: a built-in, named as in the source, or an object created by
\* register around the definition's own method ("acceptAll", "rejectAll" for
\* a validate method, "keep" and "blankOut" for a format method).
BuiltinValidators ==
    [name \in {kBlank, kInteger, kFloat, kString, kHexadecimal, kEmail, kHexColor} |->
        CASE name = kBlank -> "Validator"
          [] name = kInteger -> "IntegerValidator"
          [] name = kFloat -> "FloatValidator"
          [] name = kString -> "StringValidator"
          [] name = kHexadecimal -> "Hexadecimal"
          [] name = kEmail -> "Email"
          [] OTHER -> "HexColor"]

\* validator.validate(value) of the object a registry entry holds.
ValidatorValidate(entry, v) ==
    CASE entry = "Validator" -> TRUE
      [] entry = "IntegerValidator" -> IntegerValidate(v)
      [] entry = "FloatValidator" -> FloatValidate(v)
      [] entry = "StringValidator" -> StringValidate(v)
      [] entry = "Hexadecimal" -> RegExpValidate(v, "Hexadecimal")
      [] entry = "Email" -> RegExpValidate(v, "Email")
      [] entry = "HexColor" -> RegExpValidate(v, "HexColor")
      [] entry = "acceptAll" -> TRUE
      [] OTHER -> FALSE

\* Ember.Validators.validate(validator, value)
ValidatorsValidate(reg, name, v) ==
    LET canonical == classify(name)
        entry == IF canonical \in DOMAIN reg THEN reg[canonical] ELSE reg[kBlank]
    IN  ValidatorValidate(entry, v)

\* What register is given as its definition: nothing, an object without the
\* method, an object whose method property is no function, or an object
\* with the method.
BadDefinitions == {"null", "noMethod", "notAFunction"}
ValidatorDefinitions == BadDefinitions \cup {"acceptAll", "rejectAll"}
FormatterDefinitions == BadDefinitions \cup {"keep", "blankOut"}

\* Ember.Validators.register(name, definition): [threw, reg].
ValidatorsRegister_rejectDuplicate(reg, name, def) ==
    IF def \in BadDefinitions \/ classify(name) \in DOMAIN reg
    THEN [threw |-> TRUE, reg |-> reg]
    ELSE [threw |-> FALSE,
          reg |-> [k \in DOMAIN reg \cup {classify(name)} |->
                      IF k = classify(name) THEN def ELSE reg[k]]]

ValidatorsRegister(reg, name, def) ==
    IF def \in BadDefinitions
    THEN [threw |-> TRUE, reg |-> reg]
    ELSE [threw |-> FALSE,
          reg |-> [k \in DOMAIN reg \cup {classify(name)} |->
                      IF k = classify(name) THEN def ELSE reg[k]]]

---------------------------------------------------------------------------
(* Formatters *)

BuiltinFormatters ==
    [name \in {kBlank, kString, kUpperCase, kLowerCase, kInteger, kHexColor} |->
        CASE name = kBlank -> "Formatter"
          [] name = kString -> "StringFormatter"
          [] name = kUpperCase -> "UpperCaseFormatter"
          [] name = kLowerCase -> "LowerCaseFormatter"
          [] name = kInteger -> "IntegerFormatter"
          [] OTHER -> "HexColorFormatter"]

Returned(v) == [threw |-> FALSE, v |-> v]
Thrown == [threw |-> TRUE, v |-> Undef]

\* StringFormatter.format
StringFormat(v) == Str(JsToString(v))

\* IntegerFormatter.format
IntegerFormat(v) ==
    IF ~Truthy(v) THEN Num(0)
    ELSE LET parsed == ParseInt(JsToString(v))
         IN  IF ~parsed.nan THEN Num(parsed.n) ELSE v

\* HexColorFormatter.format: [threw, v].  A truthy value that is no string
\* and does not print with a leading "#" has no toUpperCase: a TypeError.
\* Ember.Validators.Hexadecimal is read from the namespace at the call.
HexColorFormat(v, vreg) ==
    IF ~Truthy(v) THEN Returned(Str(<<>>))
    ELSE IF JsToString(v) # <<>> /\ JsToString(v)[1] = "#" THEN Returned(v)
    ELSE IF v.t # "string" THEN Thrown
    ELSE IF ValidatorValidate(vreg[kHexadecimal], Str(toUpperCase(v.s)))
         THEN Returned(Str(<<"#">> \o v.s))
         ELSE Returned(v)

\* formatter.format(value) of the object a registry entry holds: [threw, v].
FormatterFormat(entry, v, vreg) ==
    CASE entry = "Formatter" -> Returned(v)
      [] entry = "StringFormatter" -> Returned(StringFormat(v))
      [] entry = "UpperCaseFormatter" ->
            Returned(IF Truthy(v) THEN Str(toUpperCase(StringFormat(v).s)) ELSE v)
      [] entry = "LowerCaseFormatter" ->
            Returned(IF Truthy(v) THEN Str(toLowerCase(StringFormat(v).s)) ELSE v)
      [] entry = "IntegerFormatter" -> Returned(IntegerFormat(v))
      [] entry = "HexColorFormatter" -> HexColorFormat(v, vreg)
      [] entry = "keep" -> Returned(v)
      [] OTHER -> Returned(Str(<<>>))

\* Ember.Formatters.format(formatter, value)
FormattersFormat(reg, name, v, vreg) ==
    LET canonical == classify(name)
        entry == IF canonical \in DOMAIN reg THEN reg[canonical] ELSE reg[kBlank]
    IN  FormatterFormat(entry, v, vreg)

\* Ember.Formatters.register(name, definition): [threw, reg].
FormattersRegister(reg, name, def) ==
    IF def \in BadDefinitions
    THEN [threw |-> TRUE, reg |-> reg]
    ELSE [threw |-> FALSE,
          reg |-> [k \in DOMAIN reg \cup {classify(name)} |->
                      IF k = classify(name) THEN def ELSE reg[k]]]

---------------------------------------------------------------------------
(* The flattener *)

\* _containsObj(obj), obj given by its own properties.
_containsObj(props) == \E key \in DOMAIN props : props[key].t = "object"

\* The test of _flatten on one value: a plain object holding a plain object.
IsContainer(v) == v.t = "object" /\ _containsObj(v.m)

\* A descent of one level only: the properties of a container are re-keyed
\* but not flattened themselves.
_flatten_oneLevel(props) ==
    LET entries ==
            {[key |-> k, sub |-> <<>>, leaf |-> TRUE] :
                k \in {x \in DOMAIN props : ~IsContainer(props[x])}}
            \cup UNION {{[key |-> k, sub |-> s, leaf |-> FALSE] : s \in DOMAIN props[k].m} :
                k \in {x \in DOMAIN props : IsContainer(props[x])}}
        path(e) == IF e.leaf THEN e.key ELSE e.key \o <<".">> \o e.sub
        value(e) == IF e.leaf THEN props[e.key] ELSE props[e.key].m[e.sub]
    IN  [p \in {path(e) : e \in entries} |->
            value(CHOOSE e \in entries : path(e) = p)]

\* _flatten(obj): the flat object, by dotted path.  (Two properties of one
\* result never share a path here: no key of a schema of the model has a
\* "." in it, and the keys of a flat object that have one hold leaves.)
RECURSIVE _flatten(_)
_flatten(props) ==
    LET flatObject(k) == _flatten(props[k].m)
        entries ==
            {[key |-> k, sub |-> <<>>, leaf |-> TRUE] :
                k \in {x \in DOMAIN props : ~IsContainer(props[x])}}
            \cup UNION {{[key |-> k, sub |-> s, leaf |-> FALSE] : s \in DOMAIN flatObject(k)} :
                k \in {x \in DOMAIN props : IsContainer(props[x])}}
        path(e) == IF e.leaf THEN e.key ELSE e.key \o <<".">> \o e.sub
        value(e) == IF e.leaf THEN props[e.key] ELSE flatObject(e.key)[e.sub]
    IN  [p \in {path(e) : e \in entries} |->
            value(CHOOSE e \in entries : path(e) = p)]

kValue == <<"v", "a", "l", "u", "e">>
kValid == <<"v", "a", "l", "i", "d">>
kMissing == <<"m", "i", "s", "s", "i", "n", "g">>
kMismatch == <<"m", "i", "s", "m", "a", "t", "c", "h">>
kType == <<"t", "y", "p", "e">>
kFormat == <<"f", "o", "r", "m", "a", "t">>
kRequired == <<"r", "e", "q", "u", "i", "r", "e", "d">>
kNotNull == <<"n", "o", "t", "N", "u", "l", "l">>
kMatch == <<"m", "a", "t", "c", "h">>
kEqual == <<"e", "q", "u", "a", "l">>

\* _.extend(destination, src): every property of src is copied onto the
\* destination, over a property of the same name.
Extend(destination, src) ==
    [k \in DOMAIN destination \cup DOMAIN src |->
        IF k \in DOMAIN src THEN src[k] ELSE destination[k]]

\* _formatFields(): the table built from this.fields and this.defaults.
_formatFields(schema, dflt) ==
    LET flat == _flatten(schema)
    IN  [key \in DOMAIN flat |->
            Extend(IF flat[key].t = "object" THEN flat[key].m ELSE (kValue :> flat[key]),
                   dflt)]

\* onFieldsUpdated, the observer of `fields`: the table after the hook ran.
onFieldsUpdated_keepTable(table, schema, dflt) == table

onFieldsUpdated(table, schema, dflt) == _formatFields(schema, dflt)

---------------------------------------------------------------------------
(* The form controller *)

kName == <<"n", "a", "m", "e">>
kFirst == <<"f", "i", "r", "s", "t">>
kLast == <<"l", "a", "s", "t">>
kEmailField == <<"e", "m", "a", "i", "l">>
kColor == <<"c", "o", "l", "o", "r">>
kPassword == <<"p", "a", "s", "s", "w", "o", "r", "d">>
kPasswordConfirm == kPassword \o <<"C", "o", "n", "f", "i", "r", "m">>
kNameFirst == kName \o <<".">> \o kFirst
kNameLast == kName \o <<".">> \o kLast
kUnknown == <<"n", "o", "p", "e">>

\* for-in visits the properties of an object in the order they were added.
\* Objects are functions here, so that order is given apart: every schema of
\* the model declares its fields in the order of FieldOrder.
FieldOrder == <<kNameFirst, kNameLast, kEmailField, kPassword, kPasswordConfirm, kColor>>

RECURSIVE Dedup(_)
Dedup(q) ==
    IF q = <<>> THEN <<>>
    ELSE LET front == Dedup(SubSeq(q, 1, Len(q) - 1))
         IN  IF q[Len(q)] \in Range(front) THEN front ELSE Append(front, q[Len(q)])

\* _.pick(obj, names): the keys of the copy, in the order they are added.
Pick(table, names) == Dedup(SelectSeq(names, LAMBDA name : name \in DOMAIN table))

\* The arguments of a call: none, one name, one array of names, or a list
\* of two names or more.
NoSelection == [form |-> "none", names |-> <<>>]
One(name) == [form |-> "single", names |-> <<name>>]
ArrayOf(names) == [form |-> "array", names |-> names]
ListOf(names) == [form |-> "list", names |-> names]

\* _getFields(args): the keys of the object it returns, in for-in order.
\* With a list, _.pick is handed the arguments object itself: a _.pick that
\* spreads it picks the names, one that does not finds no key.
_getFields_all(table, sel, spreads) == SelectSeq(FieldOrder, LAMBDA key : key \in DOMAIN table)

_getFields(table, sel, spreads) ==
    CASE sel.form = "none" -> SelectSeq(FieldOrder, LAMBDA key : key \in DOMAIN table)
      [] sel.form = "list" -> IF spreads THEN Pick(table, sel.names) ELSE <<>>
      [] OTHER -> Pick(table, sel.names)

\* this.get('source.' + path)
Get(src, path) == IF path \in DOMAIN src THEN src[path] ELSE Undef

Bool(b) == IF b THEN True ELSE False

\* NULL_VALUES
NULL_VALUES_falsy == {Str(<<>>), Null, Undef, Num(0), False}

NULL_VALUES == {Str(<<>>), Null, Undef}

\* validateFields, the checks of one field: the field object after them.
\* (The four properties the pass resets are read by none of its tests, so
\* the flags are computed side by side.)
CheckField(field, key, src, vreg) ==
    LET value == Get(src, key)
        valid == IF Truthy(Prop(field, kType))
                 THEN ValidatorsValidate(vreg, field[kType].s, value)
                 ELSE TRUE
        missing == \/ Truthy(Prop(field, kRequired)) /\ value \in NULL_VALUES
                   \/ Truthy(Prop(field, kNotNull)) /\ ~Truthy(value)
        mismatch == \/ Truthy(Prop(field, kMatch)) /\ value # Get(src, field[kMatch].s)
                    \/ kEqual \in DOMAIN field /\ value # field[kEqual]
    IN  Extend(field, (kValue :> value) @@ (kValid :> Bool(valid))
                      @@ (kMissing :> Bool(missing)) @@ (kMismatch :> Bool(mismatch)))

\* validateFields, the error object of one checked field: a flag is TRUE
\* when the property is set (the code sets none to anything but true).
BuildError_noForce(key, field) ==
    [key |-> key,
     missing |-> Truthy(field[kMissing]),
     invalid |-> ~Truthy(field[kMissing]) /\ ~Truthy(field[kValid]),
     mismatch |-> Truthy(field[kMismatch])]

BuildError(key, field) ==
    [key |-> key,
     missing |-> Truthy(field[kMissing]),
     invalid |-> \/ ~Truthy(field[kMissing]) /\ ~Truthy(field[kValid])
                 \/ Truthy(field[kMismatch]),
     mismatch |-> Truthy(field[kMismatch])]

\* Ember.keys(error).length
HasKeys(error) == error.missing \/ error.invalid \/ error.mismatch

\* errors = errors.length ? errors : null
ErrorsOrNull_keepEmpty(list) == [null |-> FALSE, list |-> list]

ErrorsOrNull(list) == IF Len(list) # 0 THEN [null |-> FALSE, list |-> list]
                      ELSE [null |-> TRUE, list |-> <<>>]

Call(op, sel, picked, ret, threw, before) ==
    [op |-> op, form |-> sel.form, names |-> sel.names, picked |-> picked,
     ret |-> ret, threw |-> threw, before |-> before]

\* this.set('fields', schema): the observer runs within the set.
SetFields(schema) ==
    /\ fields' = schema
    /\ _fields' = onFieldsUpdated(_fields, schema, defaults)
    /\ notified' = defaults
    /\ lastOp' = Call("setFields", NoSelection, <<>>, FALSE, FALSE, source)
    /\ UNCHANGED <<defaults, source, errors, pickSpreads>>
    /\ UNCHANGED registryVars
    /\ UNCHANGED flatVars

\* this.set('defaults', dflt): no observer watches it.
SetDefaults(dflt) ==
    /\ defaults' = dflt
    /\ lastOp' = Call("setDefaults", NoSelection, <<>>, FALSE, FALSE, source)
    /\ UNCHANGED <<fields, _fields, notified, source, errors, pickSpreads>>
    /\ UNCHANGED registryVars
    /\ UNCHANGED flatVars

\* validateFields(...)
ValidateFields(sel) ==
    LET keys == _getFields(_fields, sel, pickSpreads)
        checked == [key \in Range(keys) |-> CheckField(_fields[key], key, source, validators)]
        built == [i \in DOMAIN keys |-> BuildError(keys[i], checked[keys[i]])]
        list == SelectSeq(built, HasKeys)
    IN  /\ _fields' = [key \in DOMAIN _fields |->
                          IF key \in Range(keys) THEN checked[key] ELSE _fields[key]]
        /\ errors' = ErrorsOrNull(list)
        /\ lastOp' = Call("validate", sel, keys, ErrorsOrNull(list).null, FALSE, source)
        /\ UNCHANGED <<fields, defaults, notified, source, pickSpreads>>
        /\ UNCHANGED registryVars
        /\ UNCHANGED flatVars

\* formatFields, the loop from the i-th key on: [src, table, threw].  A
\* formatter that throws ends the loop, and what the fields before it wrote
\* stays written.
RECURSIVE FormatLoop(_, _, _, _, _, _)
FormatLoop(keys, i, table, src, freg, vreg) ==
    IF i > Len(keys) THEN [src |-> src, table |-> table, threw |-> FALSE]
    ELSE IF ~Truthy(Prop(table[keys[i]], kFormat))
    THEN FormatLoop(keys, i + 1, table, src, freg, vreg)
    ELSE LET r == FormattersFormat(freg, table[keys[i]][kFormat].s, Get(src, keys[i]), vreg)
         IN  IF r.threw THEN [src |-> src, table |-> table, threw |-> TRUE]
             ELSE FormatLoop(keys, i + 1,
                             Extend(table, keys[i] :> Extend(table[keys[i]], kValue :> r.v)),
                             Extend(src, keys[i] :> r.v), freg, vreg)

\* formatFields(...)
FormatFields(sel) ==
    LET keys == _getFields(_fields, sel, pickSpreads)
        done == FormatLoop(keys, 1, _fields, source, formatters, validators)
    IN  /\ source' = done.src
        /\ _fields' = done.table
        /\ lastOp' = Call("format", sel, keys, FALSE, done.threw, source)
        /\ UNCHANGED <<fields, defaults, notified, errors, pickSpreads>>
        /\ UNCHANGED registryVars
        /\ UNCHANGED flatVars

---------------------------------------------------------------------------
(* Registry calls *)

NoRegOp == [op |-> "none", name |-> <<>>, def |-> "null", threw |-> FALSE, result |-> Undef]

\* Ember.Validators.register(name, definition)
RegisterValidator(name, def) ==
    LET r == ValidatorsRegister(validators, name, def)
    IN  /\ validators' = r.reg
        /\ regOp' = [op |-> "Validators.register", name |-> name, def |-> def,
                     threw |-> r.threw, result |-> Undef]
        /\ UNCHANGED formatters
        /\ UNCHANGED engineVars
        /\ UNCHANGED flatVars

\* Ember.Formatters.register(name, definition)
RegisterFormatter(name, def) ==
    LET r == FormattersRegister(formatters, name, def)
    IN  /\ formatters' = r.reg
        /\ regOp' = [op |-> "Formatters.register", name |-> name, def |-> def,
                     threw |-> r.threw, result |-> Undef]
        /\ UNCHANGED validators
        /\ UNCHANGED engineVars
        /\ UNCHANGED flatVars

\* Ember.Validators.validate(name, value)
InvokeValidator(name, v) ==
    /\ regOp' = [op |-> "Validators.validate", name |-> name, def |-> "null",
                 threw |-> FALSE, result |-> Bool(ValidatorsValidate(validators, name, v))]
    /\ UNCHANGED <<validators, formatters>>
    /\ UNCHANGED engineVars
    /\ UNCHANGED flatVars

\* Ember.Formatters.format(name, value)
InvokeFormatter(name, v) ==
    LET r == FormattersFormat(formatters, name, v, validators)
    IN  /\ regOp' = [op |-> "Formatters.format", name |-> name, def |-> "null",
                     threw |-> r.threw, result |-> r.v]
        /\ UNCHANGED <<validators, formatters>>
        /\ UNCHANGED engineVars
        /\ UNCHANGED flatVars

---------------------------------------------------------------------------
(* The flattener taken alone *)

FlattenOnce ==
    /\ flatPc = 0
    /\ flatOut' = _flatten(flatIn)
    /\ flatPrev' = flatIn
    /\ flatPc' = 1
    /\ UNCHANGED flatIn
    /\ UNCHANGED engineVars
    /\ UNCHANGED registryVars

FlattenAgain ==
    /\ flatPc = 1
    /\ flatOut' = _flatten(flatOut)
    /\ flatPrev' = flatOut
    /\ flatPc' = 2
    /\ UNCHANGED flatIn
    /\ UNCHANGED engineVars
    /\ UNCHANGED registryVars

---------------------------------------------------------------------------
(* Inputs *)

sAbc == <<"a", "b", "c">>
sMail == <<"A", "@", "b", ".", "c", "o">>
sHexColorName == <<"h", "e", "x", "_", "c", "o", "l", "o", "r">>

\* { name: { first: { type: 'String', required: false } },
\*   password: { type: 'String', required: true },
\*   passwordConfirm: { match: 'password' } }
SchemaLogin ==
    (kName :> Obj(kFirst :> Obj((kType :> Str(kString)) @@ (kRequired :> False))))
    @@ (kPassword :> Obj((kType :> Str(kString)) @@ (kRequired :> True)))
    @@ (kPasswordConfirm :> Obj(kMatch :> Str(kPassword)))

\* { name: { first: { type: 'Email', format: 'LowerCase' } },
\*   password: { type: 'Integer', notNull: true },
\*   passwordConfirm: { equal: 'abc' } }
SchemaProfile ==
    (kName :> Obj(kFirst :> Obj((kType :> Str(kEmail)) @@ (kFormat :> Str(kLowerCase)))))
    @@ (kPassword :> Obj((kType :> Str(kInteger)) @@ (kNotNull :> True)))
    @@ (kPasswordConfirm :> Obj(kEqual :> Str(sAbc)))

\* { password: { type: 'hex_color', format: 'HexColor' }, passwordConfirm: 'abc' }
SchemaFlat ==
    (kPassword :> Obj((kType :> Str(sHexColorName)) @@ (kFormat :> Str(kHexColor))))
    @@ (kPasswordConfirm :> Str(sAbc))

\* The example of the header:
\* { name: { first: { type: 'String' }, last: { type: 'String' } },
\*   email: { type: 'Email', required: true },
\*   color: { type: 'HexColor', format: 'HexColor' } }
SchemaExample ==
    (kName :> Obj((kFirst :> Obj(kType :> Str(kString)))
                  @@ (kLast :> Obj(kType :> Str(kString)))))
    @@ (kEmailField :> Obj((kType :> Str(kEmail)) @@ (kRequired :> True)))
    @@ (kColor :> Obj((kType :> Str(kHexColor)) @@ (kFormat :> Str(kHexColor))))

Schemas == {SchemaLogin, SchemaProfile, SchemaFlat}
DefaultsSet == {NoProps, kRequired :> True}

NameValues == {Undef, Str(<<>>), Str(sMail)}
PasswordValues == {Undef, Null, Str(<<>>), Num(0), False, Str(sAbc)}
ConfirmValues == {Undef, Num(0), Str(sAbc)}

Sources ==
    {(kNameFirst :> a) @@ (kPassword :> b) @@ (kPasswordConfirm :> c) @@ (kColor :> Undef) :
        a \in NameValues, b \in PasswordValues, c \in ConfirmValues}

Selections ==
    {NoSelection, One(kPasswordConfirm), ArrayOf(<<kPassword, kUnknown>>),
     ListOf(<<kNameFirst, kPasswordConfirm>>)}

\* The inputs of the runs in which the schema and the defaults change.
SchemaSources ==
    {src \in Sources : /\ src[kNameFirst] \in {Undef, Str(sMail)}
                       /\ src[kPassword] \in {Undef, Str(sAbc)}
                       /\ src[kPasswordConfirm] \in {Num(0), Str(sAbc)}}
SchemaSelections == {NoSelection, One(kPassword)}

\* Strings of 3 or 6 hexadecimal digits, in either letter case.
HexChars == {"2", "a", "E"}
HexStrings == UNION {[1..len -> HexChars] : len \in {3, 6}}
HexSources ==
    {(kNameFirst :> Undef) @@ (kPassword :> Undef) @@ (kPasswordConfirm :> Undef)
     @@ (kColor :> Str(h)) : h \in HexStrings}
HexSelections == {NoSelection, One(kColor)}

\* Schemas for the flattener: scalars, leaves, containers, to MaxDepth levels.
MaxDepth == 4
kA == <<"a">>
kB == <<"b">>
Scalar == Str(<<"x">>)
Siblings == {Scalar, Obj(kA :> Scalar), Obj(kA :> Obj(kB :> Scalar))}

RECURSIVE Trees(_)
Trees(depth) ==
    IF depth = 0 THEN {Scalar}
    ELSE LET below == Trees(depth - 1)
         IN  below
             \cup {Obj(NoProps)}
             \cup {Obj(kA :> t) : t \in below}
             \cup {Obj(kB :> s) : s \in Siblings}
             \cup {Obj((kA :> t) @@ (kB :> s)) : t \in below, s \in Siblings}

FlatInputs == {tree.m : tree \in {x \in Trees(MaxDepth) : x.t = "object"}}

RegisterNames == {sHexColorName, <<"z", "i", "p">>}
InvokeValues == {Str(sAbc), Num(5)}

---------------------------------------------------------------------------
(* Specifications *)

Idle(schema, dflt, src) ==
    /\ fields = schema
    /\ defaults = dflt
    /\ _fields = _formatFields(schema, dflt)
    /\ notified = dflt
    /\ source = src
    /\ errors = [null |-> TRUE, list |-> <<>>]
    /\ lastOp = Call("init", NoSelection, <<>>, FALSE, FALSE, src)

BuiltinRegistries ==
    /\ validators = BuiltinValidators
    /\ formatters = BuiltinFormatters
    /\ regOp = NoRegOp

FlattenerIdle ==
    /\ flatIn = NoProps
    /\ flatOut = NoProps
    /\ flatPrev = NoProps
    /\ flatPc = 0

AllUndefined == CHOOSE src \in Sources : \A path \in DOMAIN src : src[path] = Undef

\* The controller: any schema, defaults and data source, then any passes.
Init ==
    /\ \E schema \in Schemas : \E dflt \in DefaultsSet : \E src \in Sources :
          Idle(schema, dflt, src)
    /\ pickSpreads \in BOOLEAN
    /\ BuiltinRegistries
    /\ FlattenerIdle

Next ==
    \/ \E sel \in Selections : ValidateFields(sel)
    \/ \E sel \in Selections : FormatFields(sel)

Spec == Init /\ [][Next]_vars

\* The controller while its schema and its defaults are replaced.
SchemaInit ==
    /\ \E schema \in Schemas : \E dflt \in DefaultsSet : \E src \in SchemaSources :
          Idle(schema, dflt, src)
    /\ pickSpreads = TRUE
    /\ BuiltinRegistries
    /\ FlattenerIdle

SchemaNext ==
    \/ \E schema \in Schemas : SetFields(schema)
    \/ \E dflt \in DefaultsSet : SetDefaults(dflt)
    \/ \E sel \in SchemaSelections : ValidateFields(sel)
    \/ \E sel \in SchemaSelections : FormatFields(sel)

SchemaSpec == SchemaInit /\ [][SchemaNext]_vars

\* The header's example over a color entered as hexadecimal digits.
HexInit ==
    /\ \E src \in HexSources : Idle(SchemaExample, NoProps, src)
    /\ pickSpreads = TRUE
    /\ BuiltinRegistries
    /\ FlattenerIdle

HexNext ==
    \/ \E sel \in HexSelections : ValidateFields(sel)
    \/ \E sel \in HexSelections : FormatFields(sel)

HexSpec == HexInit /\ [][HexNext]_vars

\* The two registries.
RegInit ==
    /\ Idle(SchemaLogin, NoProps, AllUndefined)
    /\ pickSpreads = TRUE
    /\ BuiltinRegistries
    /\ FlattenerIdle

RegNext ==
    \/ \E name \in RegisterNames : \E def \in ValidatorDefinitions : RegisterValidator(name, def)
    \/ \E name \in RegisterNames : \E def \in FormatterDefinitions : RegisterFormatter(name, def)
    \/ \E name \in RegisterNames : \E v \in InvokeValues : InvokeValidator(name, v)
    \/ \E name \in RegisterNames : \E v \in InvokeValues : InvokeFormatter(name, v)

RegSpec == RegInit /\ [][RegNext]_vars

\* The flattener, applied to a schema and then to its own result.
FlatInit ==
    /\ Idle(SchemaLogin, NoProps, AllUndefined)
    /\ pickSpreads = TRUE
    /\ BuiltinRegistries
    /\ flatIn \in FlatInputs
    /\ flatOut = NoProps
    /\ flatPrev = NoProps
    /\ flatPc = 0

FlatNext == FlattenOnce \/ FlattenAgain

FlatSpec == FlatInit /\ [][FlatNext]_vars

---------------------------------------------------------------------------
(* Properties *)

Entries == Range(errors.list)
Validated == lastOp.op = "validate"
Picked == Range(lastOp.picked)
FieldProp(key, name) == Prop(_fields[key], name)

\* C1: `errors` is null or a list that is not empty, never the empty list,
\* and validateFields returns true exactly when the errors it stored is null.
C1_ErrorsNullOrNonEmpty ==
    /\ errors.null \/ errors.list # <<>>
    /\ errors.null => errors.list = <<>>
    /\ Validated => (lastOp.ret <=> errors.null)

\* A pass over some fields found nothing and stored null.
C1_Witness == Validated /\ Picked # {} /\ lastOp.ret /\ errors.null

\* C2: a field with required false, no notNull, no match and no equal,
\* whose value is unset, gets no error entry from validateFields, whatever
\* its type.
C2_OptionalUnsetHasNoEntry ==
    Validated =>
        \A key \in Picked :
            ( /\ ~Truthy(FieldProp(key, kRequired))
              /\ ~Truthy(FieldProp(key, kNotNull))
              /\ ~Truthy(FieldProp(key, kMatch))
              /\ kEqual \notin DOMAIN _fields[key]
              /\ Get(source, key) = Undef )
            => \A e \in Entries : e.key # key

\* The four properties a pass writes on a field; the rest is its definition.
Transient == {kValue, kValid, kMissing, kMismatch}
Definition(field) == [name \in DOMAIN field \ Transient |-> field[name]]

\* C3: in the flat table a property the field declares itself keeps the
\* field's value when `defaults` has a property of the same name.
C3_FieldPropertyWins ==
    \A key \in DOMAIN _fields :
        LET leaf == _flatten(fields)[key]
        IN  leaf.t = "object" =>
                \A name \in (DOMAIN leaf.m \cap DOMAIN notified) \ Transient :
                    _fields[key][name] = leaf.m[name]

IsRegister(op) == op.op \in {"Validators.register", "Formatters.register"}
RegistryOf(op, vreg, freg) == IF op.op = "Validators.register" THEN vreg ELSE freg

C5_RequiredNullIsMissing ==
    Validated =>
        \A key \in Picked :
            Truthy(FieldProp(key, kRequired)) =>
                /\ Get(source, key) \in {Str(<<>>), Null, Undef} =>
                      /\ _fields[key][kMissing] = True
                      /\ \E e \in Entries : e.key = key /\ e.missing
                /\ (Get(source, key) \in {Num(0), False} /\ ~Truthy(FieldProp(key, kNotNull))) =>
                      /\ _fields[key][kMissing] = False
                      /\ \A e \in Entries : e.key = key => ~e.missing

\* A required field of a declared type holds null and is reported missing.
C5_Witness ==
    /\ Validated
    /\ \E key \in Picked :
          /\ Truthy(FieldProp(key, kRequired))
          /\ Truthy(FieldProp(key, kType))
          /\ Get(source, key) = Null
          /\ \E e \in Entries : e.key = key /\ e.missing

\* C6: after validateFields with a selection, `errors` holds entries only
\* for selected names that are in the flat table; unselected fields and
\* unknown names add nothing, the call does not fail, and nothing of an
\* earlier pass is left.
C6_OnlySelectedFields ==
    (Validated /\ lastOp.form # "none") =>
        /\ ~lastOp.threw
        /\ Picked \subseteq Range(lastOp.names) \cap DOMAIN _fields
        /\ \A e \in Entries : e.key \in Range(lastOp.names) \cap DOMAIN _fields

\* An array naming a field and an unknown name was validated while a field
\* outside it is required and unset.
C6_Witness ==
    /\ Validated
    /\ lastOp.form = "array"
    /\ kUnknown \in Range(lastOp.names)
    /\ Picked # {}
    /\ \E key \in DOMAIN _fields \ Range(lastOp.names) :
          Truthy(FieldProp(key, kRequired)) /\ Get(source, key) = Undef

\* C7: a checked field that declares `match` and whose value differs from
\* the value at the matched path makes validateFields return false and has
\* an entry with its path as key, invalid and mismatch.
C7_MismatchIsInvalid ==
    Validated =>
        \A key \in Picked :
            ( /\ Truthy(FieldProp(key, kMatch))
              /\ Get(source, key) # Get(source, FieldProp(key, kMatch).s) )
            => /\ ~lastOp.ret
               /\ \E e \in Entries : e.key = key /\ e.invalid /\ e.mismatch

\* The type check passed (no type) and the mismatch alone made the entry.
C7_Witness ==
    /\ Validated
    /\ \E key \in Picked :
          /\ Truthy(FieldProp(key, kMatch))
          /\ _fields[key][kValid] = True
          /\ Get(source, key) # Get(source, FieldProp(key, kMatch).s)
          /\ \E e \in Entries : e.key = key /\ e.invalid /\ e.mismatch /\ ~e.missing

\* C8: the flat table is the flattening of the schema as of the last run of
\* the change hook, merged with the defaults read then: its paths are those
\* of the present schema and every definition is that of a fresh build.
C8_TableIsOfCurrentSchema ==
    /\ DOMAIN _fields = DOMAIN _flatten(fields)
    /\ \A key \in DOMAIN _fields :
          Definition(_fields[key]) = Definition(_formatFields(fields, notified)[key])

\* A format call runs on a schema set after the last validation: `errors`
\* still names a path the present table does not have.
C8_Witness ==
    /\ lastOp.op = "format"
    /\ Picked # {}
    /\ \E e \in Entries : e.key \notin DOMAIN _fields

\* C9: flattening the result of a flattening gives the same paths with the
\* same leaves.
C9_FlattenIdempotent == flatPc = 2 => flatOut = flatPrev

\* The schema had a container, a leaf definition and a bare scalar.
C9_Witness ==
    /\ flatPc = 2
    /\ \E key \in DOMAIN flatOut : "." \in Range(key) /\ flatOut[key].t = "object"
    /\ \E key \in DOMAIN flatOut : flatOut[key] = Scalar

IsHexDigits(v) ==
    /\ v.t = "string"
    /\ Len(v.s) \in {3, 6}
    /\ AllIn(v.s, DigitSet \cup {"a", "b", "c", "d", "e", "f", "A", "B", "C", "D", "E", "F"})

\* C10: for color: { type: 'HexColor', format: 'HexColor' } holding 3 or 6
\* hexadecimal digits, formatFields followed by validateFields leaves no
\* invalid entry for the field.
C10_FormattedColorIsValid ==
    [][ ( /\ lastOp.op = "format"
          /\ kColor \in Range(lastOp.picked)
          /\ IsHexDigits(lastOp.before[kColor])
          /\ lastOp'.op = "validate"
          /\ kColor \in Range(lastOp'.picked) )
        => \A e \in Range(errors'.list) : ~(e.key = kColor /\ e.invalid) ]_vars

===========================================================================
